---- MODULE Spec2Model ----
(***************************************************************************)
(* Model of src/snake.py: the snake game's state machine.  One step of the *)
(* model is one iteration of main's `while True` loop (handle_keys,        *)
(* update_direction, move, the apple check), or one further pass of the    *)
(* `while apple.position in snake.positions` resampling loop.              *)
(*                                                                         *)
(* Coordinates are pixels, as in the source: a cell is a pair <<x, y>> of  *)
(* multiples of GRID_SIZE.  Python's None is the empty tuple, which is     *)
(* falsy like None and differs from every pair.  base_speed is kept in     *)
(* halves (the source's 5 and 0.5 are 10 and 1), so that it is an integer. *)
(***************************************************************************)
EXTENDS Integers, Sequences, FiniteSets, TLC

\* ---------------------------------------------------------------- bounds
\* The board is HalfW*2 by HalfH*2 cells: both dimensions even, as the
\* source's 32 by 24.
HalfW == 2
HalfH == 2
\* Most events handled by one handle_keys call.
MaxEvents == 2
\* The loop body is not taken when it would raise snake.length above this.
MaxLength == 5
\* The loop body is not taken when it would count more apples than this.
MaxEats == 5

\* ------------------------------------------------------------- constants
GRID_SIZE == 20
SCREEN_WIDTH == 2 * HalfW * GRID_SIZE
SCREEN_HEIGHT == 2 * HalfH * GRID_SIZE
GRID_WIDTH == SCREEN_WIDTH \div GRID_SIZE
GRID_HEIGHT == SCREEN_HEIGHT \div GRID_SIZE

UP == <<0, -1>>
DOWN == <<0, 1>>
LEFT == <<-1, 0>>
RIGHT == <<1, 0>>

None == <<>>

\* base_speed = 5, in halves
BASE_SPEED == 10
\* base_speed += 0.5, in halves
SPEED_STEP == 1

\* snake: the Snake object's fields; apple: Apple.position; base_speed: main's
\* local; pc: where main's loop stands ("loop": at the top of `while True`,
\* "resample": inside the `while apple.position in snake.positions` loop);
\* polled: the events the last handle_keys call handled, where a
\* specification records them (SpecKeys), and <<>> where it does not (Spec).
VARIABLES snake, apple, base_speed, pc, polled

vars == <<snake, apple, base_speed, pc, polled>>

\* ------------------------------------------------------------- helpers
Range(s) == {s[i] : i \in 1..Len(s)}

Front(s) == SubSeq(s, 1, Len(s) - 1)

\* The values random.randint(0, n - 1) * GRID_SIZE can take.
RandomCells == {<<i * GRID_SIZE, j * GRID_SIZE>> :
                   i \in 0..(GRID_WIDTH - 1), j \in 0..(GRID_HEIGHT - 1)}

\* The events pygame.event.get() hands to handle_keys: KEYDOWN events, by
\* their key.  QUIT ends the process and is not part of a run.
Keys == {"K_UP", "K_DOWN", "K_LEFT", "K_RIGHT", "K_OTHER"}

EventSeqs == UNION {[1..n -> Keys] : n \in 0..MaxEvents}

\* ------------------------------------------------------------- Snake
\* Snake.reset, on the fields of s.
reset(s) ==
    [s EXCEPT !.length = 1,
              !.positions = << <<((SCREEN_WIDTH \div 2) \div GRID_SIZE) * GRID_SIZE,
                                 ((SCREEN_HEIGHT \div 2) \div GRID_SIZE) * GRID_SIZE>> >>,
              !.direction = RIGHT,
              !.next_direction = None,
              !.last = None]

\* Snake.__init__
NewSnake ==
    reset([length |-> 0, positions |-> <<>>, direction |-> None,
           next_direction |-> None, last |-> None])

get_head_position(s) == s.positions[1]

\* update_direction without the test of line 115.
update_direction_NoCheck(s) ==
    IF s.next_direction # None
    THEN [s EXCEPT !.direction = s.next_direction, !.next_direction = None]
    ELSE s

\* Snake.update_direction
update_direction(s) ==
    IF s.next_direction # None
    THEN LET opposite_direction == <<s.next_direction[1] * (-1),
                                     s.next_direction[2] * (-1)>>
             t == IF opposite_direction # s.direction
                  THEN [s EXCEPT !.direction = s.next_direction]
                  ELSE s
         IN [t EXCEPT !.next_direction = None]
    ELSE s

\* Lines 122-127 without the two modulo operations.
NewHead_NoWrap(s) ==
    LET head == get_head_position(s)
    IN <<head[1] + s.direction[1] * GRID_SIZE, head[2] + s.direction[2] * GRID_SIZE>>

\* Lines 122-127: the cell the head moves to, wrapped at the screen's edges.
NewHead_TwoCells(s) ==
    LET head == get_head_position(s)
        new_x == (head[1] + s.direction[1] * 2 * GRID_SIZE) % SCREEN_WIDTH
        new_y == (head[2] + s.direction[2] * 2 * GRID_SIZE) % SCREEN_HEIGHT
    IN <<new_x, new_y>>

NewHead(s) ==
    LET head == get_head_position(s)
        new_x == (head[1] + s.direction[1] * GRID_SIZE) % SCREEN_WIDTH
        new_y == (head[2] + s.direction[2] * GRID_SIZE) % SCREEN_HEIGHT
    IN <<new_x, new_y>>

\* The test of line 130: new_head in self.positions[:-1]
HitsSelf_WholeBody(new_head, positions) == new_head \in Range(positions)

HitsSelf(new_head, positions) == new_head \in Range(Front(positions))

\* Lines 135-136 with >= for >.
PopTail_Never(s) == s

PopTail_AtLength(s) ==
    IF Len(s.positions) >= s.length
    THEN [s EXCEPT !.positions = Front(s.positions)]
    ELSE s

\* Lines 135-136: the tail is popped when the body is longer than length.
PopTail(s) ==
    IF Len(s.positions) > s.length
    THEN [s EXCEPT !.positions = Front(s.positions)]
    ELSE s

\* move with the old head saved as last instead of the old tail.
move_LastIsHead(s) ==
    LET s1 == [s EXCEPT !.last = IF Len(s.positions) > 0
                                 THEN s.positions[1]
                                 ELSE None]
        new_head == NewHead(s1)
    IN IF HitsSelf(new_head, s1.positions)
       THEN reset(s1)
       ELSE PopTail([s1 EXCEPT !.positions = <<new_head>> \o s1.positions])

\* Snake.move
move(s) ==
    LET s1 == [s EXCEPT !.last = IF Len(s.positions) > 0
                                 THEN s.positions[Len(s.positions)]
                                 ELSE None]
        new_head == NewHead(s1)
    IN IF HitsSelf(new_head, s1.positions)
       THEN reset(s1)
       ELSE PopTail([s1 EXCEPT !.positions = <<new_head>> \o s1.positions])

\* ------------------------------------------------------------- input
\* One KEYDOWN event that leaves a direction already requested in place.
handle_key_KeepFirst(s, key) ==
    IF s.next_direction # None
    THEN s
    ELSE CASE key = "K_UP" -> [s EXCEPT !.next_direction = UP]
           [] key = "K_DOWN" -> [s EXCEPT !.next_direction = DOWN]
           [] key = "K_LEFT" -> [s EXCEPT !.next_direction = LEFT]
           [] key = "K_RIGHT" -> [s EXCEPT !.next_direction = RIGHT]
           [] OTHER -> s

\* One KEYDOWN event of handle_keys' loop, lines 164-172.
handle_key(s, key) ==
    CASE key = "K_UP" -> [s EXCEPT !.next_direction = UP]
      [] key = "K_DOWN" -> [s EXCEPT !.next_direction = DOWN]
      [] key = "K_LEFT" -> [s EXCEPT !.next_direction = LEFT]
      [] key = "K_RIGHT" -> [s EXCEPT !.next_direction = RIGHT]
      [] OTHER -> s

\* handle_keys: the events in the order polled.
RECURSIVE handle_keys(_, _)
handle_keys(s, events) ==
    IF events = <<>>
    THEN s
    ELSE handle_keys(handle_key(s, Head(events)), Tail(events))

\* ------------------------------------------------------------- main
Init ==
    /\ snake = NewSnake
    /\ apple \in RandomCells
    /\ base_speed = BASE_SPEED
    /\ pc = "loop"
    /\ polled = <<>>

\* Lines 197-199: the speed-up after the apple has been placed.
SpeedUp(s, speed) == IF s.length % 1 = 0 THEN speed + SPEED_STEP ELSE speed

\* Lines 187-199 with a collision that ends the game instead of resetting the
\* snake.
TickWithin_GameOver(s1, max_length, max_eats) ==
    LET turned == update_direction(s1)
        moved == move(turned)
    IN IF HitsSelf(NewHead(turned), turned.positions)
       THEN /\ pc' = "over"
            /\ snake' = turned
            /\ UNCHANGED <<apple, base_speed>>
       ELSE IF get_head_position(moved) = apple
       THEN /\ moved.length + 1 <= max_length
            /\ base_speed + SPEED_STEP <= BASE_SPEED + max_eats * SPEED_STEP
            /\ snake' = [moved EXCEPT !.length = moved.length + 1]
            /\ apple' \in RandomCells
            /\ IF apple' \in Range(snake'.positions)
               THEN pc' = "resample" /\ base_speed' = base_speed
               ELSE pc' = "loop" /\ base_speed' = SpeedUp(snake', base_speed)
       ELSE /\ snake' = moved
            /\ UNCHANGED <<apple, base_speed, pc>>

\* Lines 187-199 on the snake s1 that handle_keys left; the first
\* randomize_position of line 193 is part of it, the resampling loop of
\* lines 195-196 continues in Resample.  The step is not taken when it would
\* raise snake.length above max_length or count more than max_eats apples.
TickWithin(s1, max_length, max_eats) ==
    LET moved == move(update_direction(s1))
    IN IF get_head_position(moved) = apple
       THEN /\ moved.length + 1 <= max_length
            /\ base_speed + SPEED_STEP <= BASE_SPEED + max_eats * SPEED_STEP
            /\ snake' = [moved EXCEPT !.length = moved.length + 1]
            /\ apple' \in RandomCells
            /\ IF apple' \in Range(snake'.positions)
               THEN pc' = "resample" /\ base_speed' = base_speed
               ELSE pc' = "loop" /\ base_speed' = SpeedUp(snake', base_speed)
       ELSE /\ snake' = moved
            /\ UNCHANGED <<apple, base_speed, pc>>

Tick(s1) == TickWithin(s1, MaxLength, MaxEats)

\* One iteration of main's loop, lines 186-199, on the events polled.
LoopOn(events) ==
    /\ pc = "loop"
    /\ Tick(handle_keys(snake, events))

\* One iteration on any events: LoopOn(events) for some events, taken once
\* for each snake handle_keys can leave.
Loop ==
    /\ pc = "loop"
    /\ \E s1 \in {handle_keys(snake, events) : events \in EventSeqs} : Tick(s1)
    /\ UNCHANGED polled

\* Lines 195-196 with the position never drawn again.
Resample_NoRedraw ==
    /\ pc = "resample"
    /\ apple' = apple
    /\ IF apple' \in Range(snake.positions)
       THEN pc' = "resample" /\ base_speed' = base_speed
       ELSE pc' = "loop" /\ base_speed' = SpeedUp(snake, base_speed)
    /\ UNCHANGED <<snake, polled>>

\* Lines 195-196: one more randomize_position while the apple is on the snake.
Resample ==
    /\ pc = "resample"
    /\ apple' \in RandomCells
    /\ IF apple' \in Range(snake.positions)
       THEN pc' = "resample" /\ base_speed' = base_speed
       ELSE pc' = "loop" /\ base_speed' = SpeedUp(snake, base_speed)
    /\ UNCHANGED <<snake, polled>>

\* The pass of the resampling loop that ends it: the position drawn is on no
\* cell of the snake and the test of line 195 fails.
ResampleExit == Resample /\ pc' = "loop"

Next == Loop \/ Resample

Spec == Init /\ [][Next]_vars

\* The iterations of the game until its first apple is eaten, with the
\* events of each iteration recorded.
LoopRecorded ==
    \E events \in EventSeqs :
        /\ LoopOn(events)
        /\ snake'.length = snake.length
        /\ polled' = events

NextKeys == LoopRecorded

SpecKeys == Init /\ [][NextKeys]_vars

\* A game in which the player steers the head along a closed tour of the
\* board: right along a row to its last free column, down there, and so on,
\* every row one column earlier than the row above.  The tour starts at the
\* centre cell heading right, as a new snake does; the player presses the
\* tour's key before every tick.  The apples fall where they may, and the
\* snake may come to cover the whole board.
BoardCells == GRID_WIDTH * GRID_HEIGHT

TourDownColumn(cy) ==
    (HalfW - 1 - ((cy - HalfH) % GRID_HEIGHT)) % GRID_WIDTH

TourKey(p) ==
    IF p[1] \div GRID_SIZE = TourDownColumn(p[2] \div GRID_SIZE)
    THEN "K_DOWN"
    ELSE "K_RIGHT"

LoopOnTour ==
    /\ pc = "loop"
    /\ TickWithin(handle_keys(snake, <<TourKey(get_head_position(snake))>>),
                  BoardCells + 1, BoardCells + 1)
    /\ UNCHANGED polled

NextTour == LoopOnTour \/ Resample

SpecTour == Init /\ [][NextTour]_vars

\* random.randint draws every value again and again: a resampling loop that
\* can end by drawing a free cell does not run forever without drawing one.
SpecTourFair == SpecTour /\ WF_vars(ResampleExit)

\* ------------------------------------------------------------ properties
HeadOf(s) == s.positions[1]

TailOf(s) == s.positions[Len(s.positions)]

\* The board's centre cell, where a reset snake lies.
Centre == <<HalfW * GRID_SIZE, HalfH * GRID_SIZE>>

\* A freshly reset snake.
Fresh(s) ==
    /\ s.positions = <<Centre>>
    /\ s.direction = RIGHT
    /\ s.next_direction = None
    /\ s.length = 1

\* move leaves last = None exactly when it has reset the snake.
WasReset(s) == s.last = None

Opposite(d) ==
    CASE d = UP -> DOWN
      [] d = DOWN -> UP
      [] d = LEFT -> RIGHT
      [] d = RIGHT -> LEFT

\* The direction an event asks for, None when it asks for none.
KeyDir(key) ==
    CASE key = "K_UP" -> UP
      [] key = "K_DOWN" -> DOWN
      [] key = "K_LEFT" -> LEFT
      [] key = "K_RIGHT" -> RIGHT
      [] OTHER -> None

\* The last direction the events ask for, None when they ask for none.
LastRequest(events) ==
    LET asking == {i \in 1..Len(events) : KeyDir(events[i]) # None}
    IN IF asking = {}
       THEN None
       ELSE KeyDir(events[CHOOSE i \in asking : \A j \in asking : j <= i])

\* A pixel position that is a cell of the board.
InBoard(p) ==
    /\ p[1] % GRID_SIZE = 0
    /\ p[2] % GRID_SIZE = 0
    /\ p[1] \div GRID_SIZE \in 0..(GRID_WIDTH - 1)
    /\ p[2] \div GRID_SIZE \in 0..(GRID_HEIGHT - 1)

\* One cell step along an axis of n cells, off an edge onto the opposite one.
WrapStep(c, d, n) ==
    IF c + d = n THEN 0 ELSE IF c + d = -1 THEN n - 1 ELSE c + d

Stepped(p, dir) ==
    <<WrapStep(p[1] \div GRID_SIZE, dir[1], GRID_WIDTH) * GRID_SIZE,
      WrapStep(p[2] \div GRID_SIZE, dir[2], GRID_HEIGHT) * GRID_SIZE>>

\* C1: between ticks (main at the top of its loop), the initial state
\* included, the apple is on no cell of the snake.
C1_AppleOffSnake == pc = "loop" => apple \notin Range(snake.positions)

\* C2: when the snake is growing (body shorter than length) and the head moves
\* onto the cell of the current tail, the snake is reset: the head is not
\* prepended onto the retained tail.
C2_GrowingOntoTailResets ==
    [][(pc = "loop" /\ Len(snake.positions) < snake.length
          /\ HeadOf(snake') = TailOf(snake))
       => (WasReset(snake') /\ snake'.positions = <<Centre>>)]_vars

\* C3: the body has at least one cell and holds no cell twice.
C3_BodyDistinct ==
    /\ Len(snake.positions) >= 1
    /\ Cardinality(Range(snake.positions)) = Len(snake.positions)

\* C4: an iteration in which the snake collides with itself leaves a freshly
\* reset snake (the centre cell alone, direction RIGHT, nothing pending,
\* length 1) and eats nothing: no growth, no speed-up.
C4_CollisionLeavesFreshSnake ==
    [][(pc = "loop" /\ WasReset(snake'))
       => (Fresh(snake') /\ base_speed' = base_speed /\ pc' = "loop")]_vars

\* C5: after every iteration the head is a cell of the board, and unless the
\* snake was reset it is the old head moved one cell in the direction taken,
\* off an edge onto the opposite edge of the same row or column.
C5_HeadWraps ==
    [][pc = "loop"
       => /\ InBoard(HeadOf(snake'))
          /\ ~WasReset(snake')
               => HeadOf(snake') = Stepped(HeadOf(snake), snake'.direction)]_vars

\* C5 witness: the head has left the right edge and re-entered at the left
\* edge of the same row.
C5_WrappedRight ==
    /\ pc = "loop"
    /\ Len(snake.positions) >= 2
    /\ snake.direction = RIGHT
    /\ snake.positions[2][1] = SCREEN_WIDTH - GRID_SIZE
    /\ snake.positions[1] = <<0, snake.positions[2][2]>>

\* C6: committing a pending direction that is the opposite of the current one
\* leaves the current direction; committing any other pending direction makes
\* it the current direction.  (Until the first apple no reset intervenes.)
C6_ReversalRejected ==
    [][pc = "loop"
       => LET pending == handle_keys(snake, polled').next_direction
          IN pending # None
               => snake'.direction = IF pending = Opposite(snake.direction)
                                     THEN snake.direction
                                     ELSE pending]_vars

\* C6 witness: the iteration just taken polled a single K_LEFT while the
\* snake went RIGHT, and it still goes RIGHT.
C6_LeftWhileRight ==
    /\ polled = <<"K_LEFT">>
    /\ snake.direction = RIGHT
    /\ snake.last # None

\* C7: of the requests polled before one commit only the last counts: the
\* direction after the iteration is the old one when no request came or the
\* last is its opposite, and the last request otherwise; nothing is pending
\* after the iteration, whether the request was taken or not.
C7_LastRequestWins ==
    [][pc = "loop"
       => LET request == LastRequest(polled')
          IN /\ snake'.next_direction = None
             /\ snake'.direction =
                  IF request = None \/ request = Opposite(snake.direction)
                  THEN snake.direction
                  ELSE request]_vars

\* C7 witness: K_UP then K_LEFT were polled in one iteration and the snake
\* goes RIGHT with nothing pending: LEFT, the last, was rejected, and UP had
\* no effect.
C7_UpThenLeftWhileRight ==
    /\ polled = <<"K_UP", "K_LEFT">>
    /\ snake.direction = RIGHT
    /\ snake.next_direction = None

\* C8: when the snake is growing (length was raised above the body) and moves
\* without being reset, the body is one cell longer and its tail is the old
\* tail.
C8_GrowthKeepsTail ==
    [][(pc = "loop" /\ Len(snake.positions) < snake.length /\ ~WasReset(snake'))
       => /\ Len(snake'.positions) = Len(snake.positions) + 1
          /\ TailOf(snake') = TailOf(snake)]_vars

\* C8 witness: a body of two cells whose tail is the cell move saved as last:
\* the snake grew from one cell and kept its tail.
C8_GrewToTwo ==
    /\ pc = "loop"
    /\ Len(snake.positions) = 2
    /\ snake.last = snake.positions[2]

\* C9: in an iteration after whose move the head is on the apple, length
\* grows by exactly 1, and once the apple is placed the speed is up by
\* exactly one step and the apple is on no cell of the snake.
C9_EatingGrowsByOne ==
    [][/\ (pc = "loop" /\ HeadOf(snake') = apple)
            => snake'.length = snake.length + 1
       /\ (pc' = "loop" /\ (pc = "resample" \/ HeadOf(snake') = apple))
            => /\ base_speed' = base_speed + SPEED_STEP
               /\ apple' \notin Range(snake'.positions)]_vars

\* C10: the speed never decreases; it increases in an iteration that eats an
\* apple; it is unchanged in an iteration that only moves and in one that
\* resets the snake.
C10_SpeedMonotone ==
    [][/\ base_speed' >= base_speed
       /\ ((pc = "loop" /\ WasReset(snake')) \/ (pc = "resample" /\ WasReset(snake)))
            => base_speed' = base_speed
       /\ (pc = "loop" /\ ~WasReset(snake') /\ HeadOf(snake') # apple)
            => base_speed' = base_speed
       /\ (pc' = "loop" /\ ((pc = "loop" /\ ~WasReset(snake') /\ HeadOf(snake') = apple)
                              \/ (pc = "resample" /\ ~WasReset(snake))))
            => base_speed' > base_speed]_vars

\* C11: while the snake leaves at least one cell of the board free, the
\* resampling loop ends: under fair drawing it comes to a position off the
\* snake and main is back at the top of its loop.
C11_RelocationEnds ==
    (pc = "resample" /\ Cardinality(Range(snake.positions)) < BoardCells)
        ~> (pc = "loop")

\* C11 witness: the resampling loop runs with a single cell of the board free.
C11_ResamplingOneFree ==
    /\ pc = "resample"
    /\ Cardinality(Range(snake.positions)) = BoardCells - 1

\* C12: the resampling loop never runs without a way to end, not even when
\* the snake covers the whole board.
C12_RelocationCanStop == pc = "resample" => ENABLED ResampleExit

\* The snakes handle_keys can leave, over all the events a tick may poll.
Steered(s) == {handle_keys(s, events) : events \in EventSeqs}

\* No cell occurs twice in the sequence of cells.
Distinct(positions) == Cardinality(Range(positions)) = Len(positions)

\* C13: the game has no final state: main is always inside its loop, and
\* whenever it is at the top of the loop, also right after a collision has
\* reset the snake, another iteration can be taken.
C13_AlwaysAnotherTick ==
    /\ pc \in {"loop", "resample"}
    /\ pc = "loop" => ENABLED Loop

\* C13 witness: a snake that a collision reset (single cell again, speed
\* already raised) and that has moved on since.
C13_MovedOnAfterCollision ==
    /\ pc = "loop"
    /\ snake.length = 1
    /\ base_speed > BASE_SPEED
    /\ snake.last # None

\* C14: when the snake is not growing (as many cells as length) and the new
\* head cell is the cell of the current tail, the move is no collision: the
\* head goes onto the tail's cell, the tail is dropped, the body keeps its
\* number of cells and holds no cell twice.
C14_OntoOwnTailIsFree ==
    [][\A s1 \in Steered(snake) :
          (/\ pc = "loop"
           /\ Len(snake.positions) = snake.length
           /\ Distinct(snake.positions)
           /\ NewHead(update_direction(s1)) = TailOf(snake)
           /\ Tick(s1))
          => /\ ~WasReset(snake')
             /\ snake'.positions = <<TailOf(snake)>> \o Front(snake.positions)
             /\ Len(snake'.positions) = Len(snake.positions)
             /\ Distinct(snake'.positions)]_vars

\* C14 witness: a body of distinct cells, as many as length, whose head is on
\* the cell move saved as last: the head has taken the old tail's cell.
C14_HeadOnVacatedTail ==
    /\ pc = "loop"
    /\ Len(snake.positions) = snake.length
    /\ Len(snake.positions) >= 2
    /\ Distinct(snake.positions)
    /\ snake.last = HeadOf(snake)

\* C15: in an iteration without collision and without the apple at the new
\* head, of a snake with as many cells as length, the new body is the new
\* head followed by the old body without its last cell, and length, the
\* apple and the speed stay as they are; from the initial snake (one cell at
\* the centre heading right) an iteration without events leaves the single
\* cell right of the centre.
C15_PlainMove ==
    [][/\ \A s1 \in Steered(snake) :
             LET new_head == NewHead(update_direction(s1))
             IN (/\ pc = "loop"
                 /\ Len(snake.positions) = snake.length
                 /\ ~HitsSelf(new_head, snake.positions)
                 /\ new_head # apple
                 /\ Tick(s1))
                => /\ snake'.positions = <<new_head>> \o Front(snake.positions)
                   /\ snake'.length = snake.length
                   /\ apple' = apple
                   /\ base_speed' = base_speed
       /\ (pc = "loop" /\ Fresh(snake) /\ Tick(handle_keys(snake, <<>>)))
             => /\ snake'.positions = <<Stepped(Centre, RIGHT)>>
                /\ get_head_position(snake') # apple => snake'.length = 1]_vars

\* C15 witness: the initial snake after one iteration without events.
C15_FirstStepRight ==
    /\ pc = "loop"
    /\ snake.positions = <<Stepped(Centre, RIGHT)>>
    /\ snake.last = Centre
    /\ snake.direction = RIGHT
    /\ snake.length = 1
    /\ base_speed = BASE_SPEED

\* C16 as the specification states it: when last is set it names a cell
\* that is no longer in the body, and after a move in which the snake grew
\* no cell is named.
C16_HintNamesVacatedCell ==
    (pc = "loop" /\ snake.last # None)
        => snake.last \notin Range(snake.positions)

\* C16, amended: after every move that does not reset the snake, last is the
\* cell that was the tail before the move, whether or not the tail moved: a
\* cell that left the body is always the one last names, and after a move in
\* which the snake grew last names the retained tail, still in the body.
C16_HintIsOldTail ==
    [][(pc = "loop" /\ ~WasReset(snake'))
       => /\ snake'.last = TailOf(snake)
          /\ Range(snake.positions) \ Range(snake'.positions) \subseteq {snake'.last}
          /\ Len(snake.positions) < snake.length
                => snake'.last = TailOf(snake')]_vars

\* C16 witness: a body of three cells whose tail is the cell last names: the
\* snake grew and last names a cell of the body.
C16_HintOnRetainedTail ==
    /\ pc = "loop"
    /\ Len(snake.positions) = 3
    /\ snake.last = snake.positions[3]

\* C17: whenever main is at the top of its loop, the body has as many cells
\* as length or one fewer: the growth of one apple is never more than one
\* move behind.
C17_LengthWithinOne ==
    pc = "loop"
        => /\ Len(snake.positions) <= snake.length
           /\ snake.length <= Len(snake.positions) + 1

\* C17 witness: a snake of several cells that has just eaten: length is one
\* more than its cells.
C17_OneCellBehind ==
    /\ pc = "loop"
    /\ Len(snake.positions) >= 2
    /\ snake.length = Len(snake.positions) + 1

\* Two cells of the board one step apart, off an edge onto the opposite one.
Adjacent(p, q) == \E dir \in {UP, DOWN, LEFT, RIGHT} : Stepped(q, dir) = p

\* C18: the body is a connected path on the torus: every cell is a cell of
\* the board and every two consecutive cells are one step apart, edges
\* joined, along exactly one axis.
C18_BodyConnected ==
    /\ \A i \in 1..Len(snake.positions) : InBoard(snake.positions[i])
    /\ \A i \in 1..(Len(snake.positions) - 1) :
          Adjacent(snake.positions[i], snake.positions[i + 1])

\* C18 witness: a body of at least three cells that lies across an edge of
\* the board: two consecutive cells are on opposite columns or rows.
C18_BodyAcrossEdge ==
    /\ pc = "loop"
    /\ Len(snake.positions) >= 3
    /\ \E i \in 1..(Len(snake.positions) - 1) :
          LET p == snake.positions[i]
              q == snake.positions[i + 1]
          IN \/ {p[1], q[1]} = {0, SCREEN_WIDTH - GRID_SIZE}
             \/ {p[2], q[2]} = {0, SCREEN_HEIGHT - GRID_SIZE}

\* C19: on the board of even width and height, move resets the snake only
\* when the body has at least five cells: no input makes a shorter snake
\* run into itself.
C19_ShortSnakeNeverCollides ==
    [][(pc = "loop" /\ WasReset(snake')) => Len(snake.positions) >= 5]_vars

\* C19 witness: a snake that a collision has just reset after four apples:
\* its body had five cells.
C19_ResetAfterFourApples ==
    /\ pc = "loop"
    /\ WasReset(snake)
    /\ snake.length = 1
    /\ base_speed = BASE_SPEED + 4 * SPEED_STEP

====
